---------------------------- MODULE Spec2Model ----------------------------
(***************************************************************************)
(* Stock/sale consistency workflow of the retail inventory backend         *)
(* (src/main.py): the handlers add_product, add_stock, add_sale,           *)
(* delete_product and remove_stock over the tables products, stocks and    *)
(* sales, each handler a sequence of execute_query calls that commit one   *)
(* statement at a time.                                                    *)
(*                                                                         *)
(* Columns that no handler branches on (product_name, category, price,     *)
(* expiry_date, sale_date) are left out of the rows.                       *)
(***************************************************************************)
EXTENDS Integers, FiniteSets, Sequences

(* ------------------------------ bounds -------------------------------- *)
MaxUser == 2
MaxProducts == 1
MaxProductId == 2
MaxStocks == 2
MaxSales == 1
MaxQty == 2

Users == 1..MaxUser
ProductIds == 1..MaxProductId
StockIds == 1..MaxStocks
\* stock_quantity values posted to add_stock
StockQtys == 1..MaxQty
\* quantity_sold / quantity values posted to add_sale and remove_stock
\* (plain int in the code: zero and negative values are accepted)
ReqQtys == (0 - 1)..MaxQty
\* the request workers of the HTTP layer
Procs == {1, 2}

VARIABLES
    products,         \* table products: rows [product_id]
    stocks,           \* table stocks: rows [stock_id, product_id, stock_quantity, user_id]
    sales,            \* table sales: rows [sale_id, product_id, quantity_sold, user_id]
    next_product_id,  \* AUTO_INCREMENT counters of the three tables
    next_stock_id,
    next_sale_id,
    pc,               \* per worker: the statement its handler executes next
    req,              \* per worker: the request being handled
    stock,            \* per worker: the handler's local `stock` / `product` (a query result)
    resp,             \* per worker: HTTP status of the finished request (0: none yet)
    before,           \* history: the tables as they were when the request in progress was received
    nstmt,            \* per worker: execute_query calls made by the request so far
    failedAt          \* per worker: ordinal of the first call that returned an error (0: none)

vars == <<products, stocks, sales, next_product_id, next_stock_id, next_sale_id,
          pc, req, stock, resp, nstmt, failedAt>>

db == <<products, stocks, sales, next_product_id, next_stock_id, next_sale_id>>

(* --------------------------- execute_query ---------------------------- *)
\* the value execute_query returns when the store raises Error
Failure == [error |-> TRUE, rows |-> <<>>]
\* the value execute_query returns for a SELECT: cursor.fetchall()
Rows(list) == [error |-> FALSE, rows |-> list]

\* Python truthiness of a query result: an empty row list is falsy, a
\* non-empty row list and the error dict are truthy
Truthy(result) == result.error \/ result.rows # <<>>

\* result[0]['stock_quantity']: defined for a non-empty row list only; on the
\* error dict the subscript 0 raises KeyError
CanIndex(result) == ~result.error /\ result.rows # <<>>

(* ----------------------- the handlers' conditions -------------------- *)
\* mutant of Insufficient: the comparison the wrong way round
InsufficientInverted(result, quantity) == result.rows[1].stock_quantity > quantity

\* add_sale: stock[0]['stock_quantity'] < sale.quantity_sold
\* remove_stock: current_stock < quantity
Insufficient(result, quantity) == result.rows[1].stock_quantity < quantity

\* mutant of RemovesAll: the row is never deleted, a zero quantity is written
RemovesAllNever(result, quantity) == FALSE

\* remove_stock: current_stock == quantity
RemovesAll(result, quantity) == result.rows[1].stock_quantity = quantity

(* ------------------------------ statements ---------------------------- *)
\* SELECT stock_quantity FROM stocks WHERE product_id = %s
\* The handler reads only element 0 of the result and the statement has no
\* ORDER BY: every matching row may come first.  The row keeps its stock_id
\* so that properties can name the row that was read.
SelectStockByProduct(product_id) ==
    IF \E r \in stocks : r.product_id = product_id
    THEN {Rows(<<r>>) : r \in {s \in stocks : s.product_id = product_id}}
    ELSE {Rows(<<>>)}

\* mutant of SelectStockByIdUser: the row is matched by stock_id alone
SelectStockByIdOnly(stock_id, user_id) ==
    IF \E r \in stocks : r.stock_id = stock_id
    THEN {Rows(<<r>>) : r \in {s \in stocks : s.stock_id = stock_id}}
    ELSE {Rows(<<>>)}

\* SELECT stock_quantity FROM stocks WHERE stock_id = %s AND user_id = %s
SelectStockByIdUser(stock_id, user_id) ==
    IF \E r \in stocks : r.stock_id = stock_id /\ r.user_id = user_id
    THEN {Rows(<<r>>) : r \in {s \in stocks : s.stock_id = stock_id /\ s.user_id = user_id}}
    ELSE {Rows(<<>>)}

\* SELECT product_id FROM products WHERE product_id = %s
SelectProduct(product_id) ==
    IF \E r \in products : r.product_id = product_id
    THEN {Rows(<<r>>) : r \in {s \in products : s.product_id = product_id}}
    ELSE {Rows(<<>>)}

\* mutant of UpdateStockByProduct: the decrement is conditional on the row
\* still holding the quantity (... AND stock_quantity >= %s)
UpdateStockByProductIfEnough(rows, quantity, product_id) ==
    {IF r.product_id = product_id /\ r.stock_quantity >= quantity
     THEN [r EXCEPT !.stock_quantity = r.stock_quantity - quantity]
     ELSE r : r \in rows}

\* UPDATE stocks SET stock_quantity = stock_quantity - %s WHERE product_id = %s
UpdateStockByProduct(rows, quantity, product_id) ==
    {IF r.product_id = product_id
     THEN [r EXCEPT !.stock_quantity = r.stock_quantity - quantity]
     ELSE r : r \in rows}

\* UPDATE stocks SET stock_quantity = stock_quantity - %s
\*   WHERE stock_id = %s AND user_id = %s
UpdateStockByIdUser(rows, quantity, stock_id, user_id) ==
    {IF r.stock_id = stock_id /\ r.user_id = user_id
     THEN [r EXCEPT !.stock_quantity = r.stock_quantity - quantity]
     ELSE r : r \in rows}

\* DELETE FROM stocks WHERE product_id = %s
DeleteStockByProduct(rows, product_id) ==
    {r \in rows : r.product_id # product_id}

\* DELETE FROM stocks WHERE stock_id = %s AND user_id = %s
DeleteStockByIdUser(rows, stock_id, user_id) ==
    {r \in rows : ~(r.stock_id = stock_id /\ r.user_id = user_id)}

\* DELETE FROM products WHERE product_id = %s
DeleteProductById(rows, product_id) ==
    {r \in rows : r.product_id # product_id}

(* ------------------------------ workers ------------------------------- *)
NoReq == [op |-> "none", product_id |-> 0, stock_id |-> 0, quantity |-> 0, user_id |-> 0]
NoResult == Rows(<<>>)
Snapshot == [products |-> products, stocks |-> stocks, sales |-> sales]
NoSnapshot == [products |-> {}, stocks |-> {}, sales |-> {}]

Quiet == \A p \in Procs : pc[p] = "idle"

\* bound of the model: requests that change a quantity are received only
\* while every stock_quantity is within MaxQty of zero, and one that raises
\* a quantity only while every stock_quantity is below MaxQty
QtyBounded(quantity) ==
    /\ \A r \in stocks : r.stock_quantity \in (0 - MaxQty)..MaxQty
    /\ quantity < 0 => \A r \in stocks : r.stock_quantity < MaxQty

\* the first execute_query call of a request received by an idle worker
Received(p, r, ok) ==
    /\ pc[p] = "idle"
    /\ req' = [req EXCEPT ![p] = r]
    /\ nstmt' = [nstmt EXCEPT ![p] = 1]
    /\ failedAt' = [failedAt EXCEPT ![p] = IF ok THEN 0 ELSE 1]

\* one more execute_query call of worker p, which succeeded or not
Called(p, ok) ==
    /\ nstmt' = [nstmt EXCEPT ![p] = @ + 1]
    /\ failedAt' = [failedAt EXCEPT ![p] = IF ~ok /\ @ = 0 THEN nstmt[p] + 1 ELSE @]

\* the handler returns or raises: the response status is sent
Finish(p, status) ==
    /\ pc' = [pc EXCEPT ![p] = "done"]
    /\ resp' = [resp EXCEPT ![p] = status]

Goto(p, label) ==
    /\ pc' = [pc EXCEPT ![p] = label]
    /\ UNCHANGED resp

Init ==
    /\ products = {}
    /\ stocks = {}
    /\ sales = {}
    /\ next_product_id = 1
    /\ next_stock_id = 1
    /\ next_sale_id = 1
    /\ pc = [p \in Procs |-> "idle"]
    /\ req = [p \in Procs |-> NoReq]
    /\ stock = [p \in Procs |-> NoResult]
    /\ resp = [p \in Procs |-> 0]
    /\ before = NoSnapshot
    /\ nstmt = [p \in Procs |-> 0]
    /\ failedAt = [p \in Procs |-> 0]

(* ------------------------- single-statement handlers ------------------ *)
\* POST /products/
add_product(ok) ==
    /\ next_product_id <= MaxProducts
    /\ IF ok
       THEN /\ products' = products \cup
                   {[product_id |-> next_product_id]}
            /\ next_product_id' = next_product_id + 1
       ELSE UNCHANGED <<products, next_product_id>>
    /\ UNCHANGED <<stocks, sales, next_stock_id, next_sale_id,
                   pc, req, stock, resp, nstmt, failedAt>>

\* POST /stocks/
add_stock(product_id, stock_quantity, user_id, ok) ==
    /\ next_stock_id <= MaxStocks
    /\ IF ok
       THEN /\ stocks' = stocks \cup
                   {[stock_id |-> next_stock_id, product_id |-> product_id,
                     stock_quantity |-> stock_quantity, user_id |-> user_id]}
            /\ next_stock_id' = next_stock_id + 1
       ELSE UNCHANGED <<stocks, next_stock_id>>
    /\ UNCHANGED <<products, sales, next_product_id, next_sale_id,
                   pc, req, stock, resp, nstmt, failedAt>>

(* ------------------------------ add_sale ------------------------------ *)
\* POST /sales/: the stock check
add_sale_check(p, product_id, quantity_sold, user_id, ok) ==
    /\ next_sale_id <= MaxSales
    /\ QtyBounded(quantity_sold)
    /\ Received(p, [op |-> "add_sale", product_id |-> product_id, stock_id |-> 0,
                    quantity |-> quantity_sold, user_id |-> user_id], ok)
    /\ \E result \in (IF ok THEN SelectStockByProduct(product_id) ELSE {Failure}) :
          /\ stock' = [stock EXCEPT ![p] = result]
          /\ IF ~Truthy(result)
             THEN Finish(p, 400)
             ELSE IF ~CanIndex(result)
             THEN Finish(p, 500)
             ELSE IF Insufficient(result, quantity_sold)
             THEN Finish(p, 400)
             ELSE Goto(p, "sale_insert")
    /\ UNCHANGED db

\* INSERT INTO sales: the result of execute_query is dropped
add_sale_insert(p, ok) ==
    /\ pc[p] = "sale_insert"
    /\ Called(p, ok)
    /\ IF ok
       THEN /\ sales' = sales \cup
                   {[sale_id |-> next_sale_id, product_id |-> req[p].product_id,
                     quantity_sold |-> req[p].quantity,
                     user_id |-> req[p].user_id]}
            /\ next_sale_id' = next_sale_id + 1
       ELSE UNCHANGED <<sales, next_sale_id>>
    /\ Goto(p, "sale_update")
    /\ UNCHANGED <<products, stocks, next_product_id, next_stock_id,
                   req, stock>>

\* UPDATE stocks: the result of execute_query is dropped
add_sale_update(p, ok) ==
    /\ pc[p] = "sale_update"
    /\ Called(p, ok)
    /\ stocks' = IF ok
                 THEN UpdateStockByProduct(stocks, req[p].quantity, req[p].product_id)
                 ELSE stocks
    /\ Finish(p, 200)
    /\ UNCHANGED <<products, sales, next_product_id, next_stock_id, next_sale_id,
                   req, stock>>

(* ---------------------------- delete_product -------------------------- *)
\* DELETE /products/{product_id}: the existence check
delete_product_check(p, product_id, ok) ==
    /\ Received(p, [op |-> "delete_product", product_id |-> product_id, stock_id |-> 0,
                    quantity |-> 0, user_id |-> 0], ok)
    /\ \E result \in (IF ok THEN SelectProduct(product_id) ELSE {Failure}) :
          /\ stock' = [stock EXCEPT ![p] = result]
          /\ IF ~Truthy(result)
             THEN Finish(p, 404)
             ELSE Goto(p, "delete_stocks")
    /\ UNCHANGED db

\* DELETE FROM stocks WHERE product_id
delete_product_stocks(p, ok) ==
    /\ pc[p] = "delete_stocks"
    /\ Called(p, ok)
    /\ stocks' = IF ok THEN DeleteStockByProduct(stocks, req[p].product_id) ELSE stocks
    /\ Goto(p, "delete_product")
    /\ UNCHANGED <<products, sales, next_product_id, next_stock_id, next_sale_id,
                   req, stock>>

\* DELETE FROM products WHERE product_id
delete_product_product(p, ok) ==
    /\ pc[p] = "delete_product"
    /\ Called(p, ok)
    /\ products' = IF ok THEN DeleteProductById(products, req[p].product_id) ELSE products
    /\ Finish(p, 200)
    /\ UNCHANGED <<stocks, sales, next_product_id, next_stock_id, next_sale_id,
                   req, stock>>

(* ----------------------------- remove_stock --------------------------- *)
\* DELETE /stocks/: the check of the current quantity
remove_stock_check(p, stock_id, quantity, user_id, ok) ==
    /\ QtyBounded(quantity)
    /\ Received(p, [op |-> "remove_stock", product_id |-> 0, stock_id |-> stock_id,
                    quantity |-> quantity, user_id |-> user_id], ok)
    /\ \E result \in (IF ok THEN SelectStockByIdUser(stock_id, user_id) ELSE {Failure}) :
          /\ stock' = [stock EXCEPT ![p] = result]
          /\ IF ~Truthy(result)
             THEN Finish(p, 404)
             ELSE IF ~CanIndex(result)
             THEN Finish(p, 500)
             ELSE IF Insufficient(result, quantity)
             THEN Finish(p, 400)
             ELSE IF RemovesAll(result, quantity)
             THEN Goto(p, "remove_delete")
             ELSE Goto(p, "remove_update")
    /\ UNCHANGED db

\* current_stock == quantity: DELETE FROM stocks WHERE stock_id AND user_id
remove_stock_delete(p, ok) ==
    /\ pc[p] = "remove_delete"
    /\ Called(p, ok)
    /\ stocks' = IF ok
                 THEN DeleteStockByIdUser(stocks, req[p].stock_id, req[p].user_id)
                 ELSE stocks
    /\ Finish(p, 200)
    /\ UNCHANGED <<products, sales, next_product_id, next_stock_id, next_sale_id,
                   req, stock>>

\* otherwise: UPDATE stocks SET stock_quantity = stock_quantity - quantity
remove_stock_update(p, ok) ==
    /\ pc[p] = "remove_update"
    /\ Called(p, ok)
    /\ stocks' = IF ok
                 THEN UpdateStockByIdUser(stocks, req[p].quantity,
                                          req[p].stock_id, req[p].user_id)
                 ELSE stocks
    /\ Finish(p, 200)
    /\ UNCHANGED <<products, sales, next_product_id, next_stock_id, next_sale_id,
                   req, stock>>

\* "Remaining stock: {current_stock - quantity}" of the response message
Remaining(p) == stock[p].rows[1].stock_quantity - req[p].quantity

\* the response has been sent: the worker is free for the next request
respond(p) ==
    /\ pc[p] = "done"
    /\ pc' = [pc EXCEPT ![p] = "idle"]
    /\ req' = [req EXCEPT ![p] = NoReq]
    /\ stock' = [stock EXCEPT ![p] = NoResult]
    /\ resp' = [resp EXCEPT ![p] = 0]
    /\ nstmt' = [nstmt EXCEPT ![p] = 0]
    /\ failedAt' = [failedAt EXCEPT ![p] = 0]
    /\ UNCHANGED db

(* --------------------------- specifications --------------------------- *)
\* the history variable: set when a request is received with no other in
\* progress, dropped when no request is left in progress
Track ==
    before' = IF \A p \in Procs : pc'[p] = "idle" THEN NoSnapshot
              ELSE IF Quiet THEN Snapshot
              ELSE before

\* The program: requests are dispatched concurrently, so the statements of
\* the requests in progress interleave, and any execute_query call may
\* return an error.
Next ==
    \E ok \in BOOLEAN :
       \/ add_product(ok) /\ UNCHANGED before
       \/ \E i \in ProductIds, q \in StockQtys, u \in Users :
             add_stock(i, q, u, ok) /\ UNCHANGED before
       \/ \E p \in Procs, i \in ProductIds, q \in ReqQtys, u \in Users :
             add_sale_check(p, i, q, u, ok) /\ UNCHANGED before
       \/ \E p \in Procs : add_sale_insert(p, ok) /\ UNCHANGED before
       \/ \E p \in Procs : add_sale_update(p, ok) /\ UNCHANGED before
       \/ \E p \in Procs, i \in ProductIds :
             delete_product_check(p, i, ok) /\ UNCHANGED before
       \/ \E p \in Procs : delete_product_stocks(p, ok) /\ UNCHANGED before
       \/ \E p \in Procs : delete_product_product(p, ok) /\ UNCHANGED before
       \/ \E p \in Procs, i \in StockIds, q \in ReqQtys, u \in Users :
             remove_stock_check(p, i, q, u, ok) /\ UNCHANGED before
       \/ \E p \in Procs : remove_stock_delete(p, ok) /\ UNCHANGED before
       \/ \E p \in Procs : remove_stock_update(p, ok) /\ UNCHANGED before
       \/ \E p \in Procs : respond(p) /\ UNCHANGED before
Spec == Init /\ [][Next]_vars

\* Each request runs to completion before the next one is received, and the
\* store raises no error.
SeqNext ==
    \/ Quiet /\ add_product(TRUE) /\ Track
    \/ \E i \in ProductIds, q \in StockQtys, u \in Users :
          Quiet /\ add_stock(i, q, u, TRUE) /\ Track
    \/ \E p \in {1}, i \in ProductIds, q \in ReqQtys, u \in Users :
          Quiet /\ add_sale_check(p, i, q, u, TRUE) /\ Track
    \/ \E p \in Procs : add_sale_insert(p, TRUE) /\ Track
    \/ \E p \in Procs : add_sale_update(p, TRUE) /\ Track
    \/ \E p \in {1}, i \in ProductIds :
          Quiet /\ delete_product_check(p, i, TRUE) /\ Track
    \/ \E p \in Procs : delete_product_stocks(p, TRUE) /\ Track
    \/ \E p \in Procs : delete_product_product(p, TRUE) /\ Track
    \/ \E p \in {1}, i \in StockIds, q \in ReqQtys, u \in Users :
          Quiet /\ remove_stock_check(p, i, q, u, TRUE) /\ Track
    \/ \E p \in Procs : remove_stock_delete(p, TRUE) /\ Track
    \/ \E p \in Procs : remove_stock_update(p, TRUE) /\ Track
    \/ \E p \in Procs : respond(p) /\ Track
SeqSpec == Init /\ [][SeqNext]_vars

\* As SeqSpec, and any execute_query call may return an error.
FailNext ==
    \E ok \in BOOLEAN :
       \/ Quiet /\ add_product(ok) /\ Track
       \/ \E i \in ProductIds, q \in StockQtys, u \in Users :
             Quiet /\ add_stock(i, q, u, ok) /\ Track
       \/ \E p \in {1}, i \in ProductIds, q \in ReqQtys, u \in Users :
             Quiet /\ add_sale_check(p, i, q, u, ok) /\ Track
       \/ \E p \in Procs : add_sale_insert(p, ok) /\ Track
       \/ \E p \in Procs : add_sale_update(p, ok) /\ Track
       \/ \E p \in {1}, i \in ProductIds :
             Quiet /\ delete_product_check(p, i, ok) /\ Track
       \/ \E p \in Procs : delete_product_stocks(p, ok) /\ Track
       \/ \E p \in Procs : delete_product_product(p, ok) /\ Track
       \/ \E p \in {1}, i \in StockIds, q \in ReqQtys, u \in Users :
             Quiet /\ remove_stock_check(p, i, q, u, ok) /\ Track
       \/ \E p \in Procs : remove_stock_delete(p, ok) /\ Track
       \/ \E p \in Procs : remove_stock_update(p, ok) /\ Track
       \/ \E p \in Procs : respond(p) /\ Track
FailSpec == Init /\ [][FailNext]_vars

\* The statements of one request interleave with add_product and add_stock
\* requests; the store raises no error.
InterleaveNext ==
    \/ add_product(TRUE) /\ UNCHANGED before
    \/ \E i \in ProductIds, q \in StockQtys, u \in Users :
          add_stock(i, q, u, TRUE) /\ UNCHANGED before
    \/ \E p \in {1}, i \in ProductIds, q \in ReqQtys, u \in Users :
          add_sale_check(p, i, q, u, TRUE) /\ UNCHANGED before
    \/ \E p \in Procs : add_sale_insert(p, TRUE) /\ UNCHANGED before
    \/ \E p \in Procs : add_sale_update(p, TRUE) /\ UNCHANGED before
    \/ \E p \in {1}, i \in ProductIds :
          delete_product_check(p, i, TRUE) /\ UNCHANGED before
    \/ \E p \in Procs : delete_product_stocks(p, TRUE) /\ UNCHANGED before
    \/ \E p \in Procs : delete_product_product(p, TRUE) /\ UNCHANGED before
    \/ \E p \in {1}, i \in StockIds, q \in ReqQtys, u \in Users :
          remove_stock_check(p, i, q, u, TRUE) /\ UNCHANGED before
    \/ \E p \in Procs : remove_stock_delete(p, TRUE) /\ UNCHANGED before
    \/ \E p \in Procs : remove_stock_update(p, TRUE) /\ UNCHANGED before
    \/ \E p \in Procs : respond(p) /\ UNCHANGED before
InterleaveSpec == Init /\ [][InterleaveNext]_vars

\* Two workers handle one add_sale or remove_stock request each: their
\* statements interleave, with each other and with add_stock requests; the
\* store raises no error.
RaceNext ==
    \/ \E i \in ProductIds, q \in StockQtys, u \in Users :
          add_stock(i, q, u, TRUE) /\ UNCHANGED before
    \/ \E p \in Procs, i \in ProductIds, q \in ReqQtys, u \in Users :
          add_sale_check(p, i, q, u, TRUE) /\ UNCHANGED before
    \/ \E p \in Procs : add_sale_insert(p, TRUE) /\ UNCHANGED before
    \/ \E p \in Procs : add_sale_update(p, TRUE) /\ UNCHANGED before
    \/ \E p \in Procs, i \in StockIds, q \in ReqQtys, u \in Users :
          remove_stock_check(p, i, q, u, TRUE) /\ UNCHANGED before
    \/ \E p \in Procs : remove_stock_delete(p, TRUE) /\ UNCHANGED before
    \/ \E p \in Procs : remove_stock_update(p, TRUE) /\ UNCHANGED before
RaceSpec == Init /\ [][RaceNext]_vars

(* ------------------------------ properties ---------------------------- *)
\* worker p has finished a request of kind op with the given HTTP status
Done(p, op, status) == pc[p] = "done" /\ req[p].op = op /\ resp[p] = status

\* the rows of a table of stocks that hold product_id
RowsOf(rows, product_id) == {r \in rows : r.product_id = product_id}

\* the stock held in a set of rows
RECURSIVE SumQty(_)
SumQty(rows) ==
    IF rows = {} THEN 0
    ELSE LET r == CHOOSE x \in rows : TRUE
         IN  r.stock_quantity + SumQty(rows \ {r})

\* the row element 0 of worker p's query result
Read(p) == stock[p].rows[1]

\* C1: whenever no request is in progress (every add_stock, add_sale,
\* remove_stock and delete_product request so far has run to completion),
\* every Stock row has stock_quantity >= 0.
C1_StockNeverNegative ==
    Quiet => \A r \in stocks : r.stock_quantity >= 0

\* C2: when add_sale (here: for a quantity_sold > 0, the valid requests of
\* the claim) has passed the stock check and returned success, exactly
\* one Sale row {product_id, quantity_sold, user_id} was added, the stock
\* held for product_id, summed over its rows, fell by exactly quantity_sold,
\* and the rows of every other product are unchanged.
C2_SaleDecrementsByQuantity ==
    \A p \in Procs :
       (Done(p, "add_sale", 200) /\ req[p].quantity > 0) =>
          /\ \E row \in sales \ before.sales :
                /\ sales = before.sales \cup {row}
                /\ row.product_id = req[p].product_id
                /\ row.quantity_sold = req[p].quantity
                /\ row.user_id = req[p].user_id
          /\ SumQty(RowsOf(stocks, req[p].product_id))
                = SumQty(RowsOf(before.stocks, req[p].product_id)) - req[p].quantity
          /\ stocks \ RowsOf(stocks, req[p].product_id)
                = before.stocks \ RowsOf(before.stocks, req[p].product_id)

\* C3: add_sale for a product without Stock row, or with quantity_sold
\* greater than the stock_quantity it read, ends with status 400 and leaves
\* the tables as they were: no Sale row is created, no Stock row changes.
C3_RejectedSaleMutatesNothing ==
    \A p \in Procs :
       (/\ pc[p] = "done"
        /\ req[p].op = "add_sale"
        /\ \/ RowsOf(before.stocks, req[p].product_id) = {}
           \/ /\ stock[p].rows # <<>>
              /\ req[p].quantity > Read(p).stock_quantity)
       => /\ resp[p] = 400
          /\ stocks = before.stocks
          /\ sales = before.sales
          /\ products = before.products

\* C3 witness: a sale of more than the quantity read was rejected while the
\* product had stock
C3_Witness ==
    \E p \in Procs :
       /\ Done(p, "add_sale", 400)
       /\ stock[p].rows # <<>>
       /\ Read(p).stock_quantity > 0
       /\ req[p].quantity > Read(p).stock_quantity

\* C4: after a successful remove_stock on a row holding s: with quantity < s
\* the row persists with s - quantity, which is the remaining stock reported;
\* with quantity = s the row is gone; no other row changes.  A remove_stock
\* for a stock_id that was handed out and whose row is gone ends with 404.
C4_RemoveStockResult ==
    \A p \in Procs :
       /\ Done(p, "remove_stock", 200) =>
             \E r \in before.stocks :
                /\ r.stock_id = req[p].stock_id
                /\ r.user_id = req[p].user_id
                /\ req[p].quantity <= r.stock_quantity
                /\ req[p].quantity < r.stock_quantity =>
                      /\ stocks = (before.stocks \ {r}) \cup
                            {[r EXCEPT !.stock_quantity = r.stock_quantity - req[p].quantity]}
                      /\ Remaining(p) = r.stock_quantity - req[p].quantity
                /\ req[p].quantity = r.stock_quantity =>
                      stocks = before.stocks \ {r}
       /\ (/\ pc[p] = "done"
           /\ req[p].op = "remove_stock"
           /\ req[p].stock_id < next_stock_id
           /\ \A r \in before.stocks : r.stock_id # req[p].stock_id)
          => resp[p] = 404

\* C4 witness: the whole quantity of a row was removed and the row is gone
C4_Witness ==
    \E p \in Procs :
       /\ Done(p, "remove_stock", 200)
       /\ req[p].quantity = Read(p).stock_quantity
       /\ req[p].quantity > 0
       /\ \A r \in stocks : r.stock_id # req[p].stock_id
       /\ stocks # {}

\* C5: remove_stock ends with 404 when no Stock row matches both stock_id and
\* user_id, and with 400 when quantity exceeds the stock_quantity of the
\* matching row; a remove_stock that ends with 404 or 400 leaves the tables
\* as they were.
C5_FailedRemoveMutatesNothing ==
    \A p \in Procs :
       (pc[p] = "done" /\ req[p].op = "remove_stock") =>
          /\ (\A r \in before.stocks :
                 ~(r.stock_id = req[p].stock_id /\ r.user_id = req[p].user_id))
             => resp[p] = 404
          /\ (\E r \in before.stocks :
                 /\ r.stock_id = req[p].stock_id
                 /\ r.user_id = req[p].user_id
                 /\ req[p].quantity > r.stock_quantity)
             => resp[p] = 400
          /\ resp[p] \in {400, 404} =>
                /\ stocks = before.stocks
                /\ sales = before.sales
                /\ products = before.products

\* C5 witness: the row named by stock_id exists and belongs to another user
C5_Witness ==
    \E p \in Procs :
       /\ Done(p, "remove_stock", 404)
       /\ \E r \in stocks :
             /\ r.stock_id = req[p].stock_id
             /\ r.user_id # req[p].user_id
             /\ r.stock_quantity >= req[p].quantity

\* C6: when delete_product has returned success, no Product row and no
\* Stock row of product_id exists, also when add_stock requests for the
\* product ran between its statements.  (No statement of delete_product
\* names the table sales: its three actions leave sales unchanged.)
C6_DeleteLeavesNoOrphan ==
    \A p \in Procs :
       Done(p, "delete_product", 200) =>
          /\ \A r \in products : r.product_id # req[p].product_id
          /\ \A r \in stocks : r.product_id # req[p].product_id

\* C7: an add_sale or remove_stock request made for user u reads for its
\* check, updates and deletes only Stock rows whose user_id is u.
C7_ScopedByUser ==
    \A p \in Procs :
       (pc[p] = "done" /\ req[p].op \in {"add_sale", "remove_stock"}) =>
          /\ stock[p].rows # <<>> => Read(p).user_id = req[p].user_id
          /\ \A r \in before.stocks \ stocks : r.user_id = req[p].user_id

\* C8: once an execute_query call of a request has returned an error, the
\* request makes no further call: the failed call is its last one.
C8_ErrorIsTerminal ==
    \A p \in Procs : failedAt[p] # 0 => nstmt[p] = failedAt[p]

C10_SaleQuantityPositive ==
    /\ \A r \in sales : r.quantity_sold > 0
    /\ \A p \in Procs :
          (pc[p] = "done" /\ req[p].op = "add_sale") =>
             \A r \in stocks, b \in before.stocks :
                r.stock_id = b.stock_id => r.stock_quantity <= b.stock_quantity

=====
